---- MODULE Spec2Model ----
(***************************************************************************)
(* Model of the INP normalisation pipeline of RUGOSCAN (src/src/App.tsx,   *)
(* lines 26-113; the older copy in src/unnamed/part_000, lines 10-97, is   *)
(* the same code).  Texts are strings, handled character by character the  *)
(* way the JavaScript string methods and regular expressions handle them.  *)
(***************************************************************************)
EXTENDS Integers, Sequences, FiniteSets, TLC

VARIABLES pc, passo, original, comRugosidade, limpo, completo

vars == <<pc, passo, original, comRugosidade, limpo, completo>>

(***************************************************************************)
(* String primitives of the JavaScript runtime the code relies on.         *)
(***************************************************************************)

\* the i-th character of s (1-based), as a string of length 1
Char(s, i) == SubSeq(s, i, i)

\* white space as String.prototype.trim and the regex class \s see it, for
\* the ASCII characters: space, tab, line feed, vertical tab (U+000B, written
\* as the character itself, TLA+ having no escape for it), form feed and
\* carriage return.  The texts of the model are ASCII; the white space beyond
\* ASCII that trim and \s also take (U+00A0, U+1680, U+2000-200A, U+2028,
\* U+2029, U+202F, U+205F, U+3000, U+FEFF) is outside its alphabet.
IsSpace(c) == c \in {" ", "\t", "\n", "", "\f", "\r"}

\* line terminators: the characters the regex '.' does not match
IsLineTerminator(c) == c \in {"\n", "\r"}

\* String.prototype.startsWith
StartsWith(s, p) == Len(s) >= Len(p) /\ SubSeq(s, 1, Len(p)) = p

\* String.prototype.endsWith
EndsWith(s, p) == Len(s) >= Len(p) /\ SubSeq(s, Len(s) - Len(p) + 1, Len(s)) = p

RECURSIVE TrimStart(_)
TrimStart(s) ==
  IF s = "" THEN ""
  ELSE IF IsSpace(Char(s, 1)) THEN TrimStart(SubSeq(s, 2, Len(s)))
  ELSE s

RECURSIVE TrimEnd(_)
TrimEnd(s) ==
  IF s = "" THEN ""
  ELSE IF IsSpace(Char(s, Len(s))) THEN TrimEnd(SubSeq(s, 1, Len(s) - 1))
  ELSE s

\* String.prototype.trim
Trim(s) == TrimEnd(TrimStart(s))

UpperOf ==
  [a |-> "A", b |-> "B", c |-> "C", d |-> "D", e |-> "E", f |-> "F", g |-> "G",
   h |-> "H", i |-> "I", j |-> "J", k |-> "K", l |-> "L", m |-> "M", n |-> "N",
   o |-> "O", p |-> "P", q |-> "Q", r |-> "R", s |-> "S", t |-> "T", u |-> "U",
   v |-> "V", w |-> "W", x |-> "X", y |-> "Y", z |-> "Z"]

RECURSIVE ToUpperCase(_)
\* String.prototype.toUpperCase
ToUpperCase(s) ==
  IF s = "" THEN ""
  ELSE LET c == Char(s, 1)
       IN (IF c \in DOMAIN UpperOf THEN UpperOf[c] ELSE c)
            \o ToUpperCase(SubSeq(s, 2, Len(s)))

RECURSIVE IndexOfNewline(_, _)
\* position of the first "\n" of s at or after i, 0 when there is none
IndexOfNewline(s, i) ==
  IF i > Len(s) THEN 0
  ELSE IF Char(s, i) = "\n" THEN i
  ELSE IndexOfNewline(s, i + 1)

RECURSIVE SplitLines(_)
\* text.split(/\r?\n/): cut at every "\n", dropping one "\r" right before it
SplitLines(s) ==
  LET n == IndexOfNewline(s, 1)
  IN IF n = 0 THEN <<s>>
     ELSE LET cut == IF n > 1 /\ Char(s, n - 1) = "\r" THEN n - 2 ELSE n - 1
          IN <<SubSeq(s, 1, cut)>> \o SplitLines(SubSeq(s, n + 1, Len(s)))

RECURSIVE Join(_, _)
\* Array.prototype.join(sep)
Join(seq, sep) ==
  IF Len(seq) = 0 THEN ""
  ELSE IF Len(seq) = 1 THEN seq[1]
  ELSE seq[1] \o sep \o Join(Tail(seq), sep)

RECURSIVE TokenEnd(_, _)
\* last position of the run of non-space characters of s that starts at i
TokenEnd(s, i) ==
  IF i < Len(s) /\ ~IsSpace(Char(s, i + 1)) THEN TokenEnd(s, i + 1) ELSE i

RECURSIVE SplitSpaces(_)
\* t.split(/\s+/) for a trimmed t; the empty string gives one empty token
SplitSpaces(t) ==
  IF t = "" THEN <<"">>
  ELSE LET e == TokenEnd(t, 1)
           rest == TrimStart(SubSeq(t, e + 1, Len(t)))
       IN IF e = Len(t) THEN <<t>>
          ELSE <<SubSeq(t, 1, e)>> \o SplitSpaces(rest)

(***************************************************************************)
(* corrigirRugosidadeINP: the repair of the [PIPES] records.               *)
(***************************************************************************)

\* the default of valorPadrao when the caller gives none (normalizarINP)
ValorPadraoDefault == 100

\* camposPadrao with the fallbacks of roughness and minorLoss exchanged
camposPadraoTrocados(valorPadrao) ==
  <<"", "", "", "0", "100", "0.0", ToString(valorPadrao), "Open">>

\* the fallbacks of the eight '??' expressions, in column order
camposPadrao(valorPadrao) ==
  <<"", "", "", "0", "100", ToString(valorPadrao), "0.0", "Open">>

\* the body of the 'if' that rewrites one record
repararLinha(linha, valorPadrao) ==
  LET partes == SplitSpaces(Trim(linha))
      padrao == camposPadrao(valorPadrao)
      campos == [i \in 1..Len(padrao) |->
                   IF i <= Len(partes) THEN partes[i] ELSE padrao[i]]
  IN Join(campos, " ")

\* the test of a header line in corrigirRugosidadeINP
abreSecao(linhaTrim) == StartsWith(linhaTrim, "[")

\* the new value of dentroDePipes on a header line
ehCabecalhoPipes(linhaTrim) == ToUpperCase(linhaTrim) = "[PIPES]"

\* the test of a record to rewrite
ehRegistro(dentroDePipes, linhaTrim) ==
  dentroDePipes /\ linhaTrim # "" /\ ~StartsWith(linhaTrim, ";")

RECURSIVE corrigirLoop(_, _, _, _)
\* the for loop: the lines pushed to resultado from line i on
corrigirLoop(linhas, i, dentroDePipes, valorPadrao) ==
  IF i > Len(linhas) THEN <<>>
  ELSE LET linha == linhas[i]
           linhaTrim == Trim(linha)
       IN IF abreSecao(linhaTrim)
          THEN <<linha>> \o
               corrigirLoop(linhas, i + 1, ehCabecalhoPipes(linhaTrim), valorPadrao)
          ELSE IF ehRegistro(dentroDePipes, linhaTrim)
          THEN <<repararLinha(linha, valorPadrao)>> \o
               corrigirLoop(linhas, i + 1, dentroDePipes, valorPadrao)
          ELSE <<linha>> \o
               corrigirLoop(linhas, i + 1, dentroDePipes, valorPadrao)

corrigirRugosidadeINP(inpText, valorPadrao) ==
  Join(corrigirLoop(SplitLines(inpText), 1, FALSE, valorPadrao), "\n")

(***************************************************************************)
(* limparSecoesVazias: the pruning of the sections without content.        *)
(***************************************************************************)

\* the filter of salvarSecaoSeValida: neither blank nor a comment
linhaValida(l) == Trim(l) # "" /\ ~StartsWith(Trim(l), ";")

\* the number of valid lines a buffer needs to exceed to be kept
minimoValidas == 1

\* salvarSecaoSeValida: resultado after the buffer is flushed
salvarSecaoSeValida(bufferSecao, resultado) ==
  IF Len(SelectSeq(bufferSecao, linhaValida)) > minimoValidas
  THEN resultado \o bufferSecao
  ELSE resultado

\* the test of a header line in limparSecoesVazias
ehCabecalho(linha) == StartsWith(Trim(linha), "[") /\ EndsWith(Trim(linha), "]")

RECURSIVE limparLoop(_, _, _, _)
\* the for loop from line i on, then the final flush
limparLoop(linhas, i, bufferSecao, resultado) ==
  IF i > Len(linhas)
  THEN IF Len(bufferSecao) > 0
       THEN salvarSecaoSeValida(bufferSecao, resultado)
       ELSE resultado
  ELSE LET linha == linhas[i]
           flush == ehCabecalho(linha) /\ Len(bufferSecao) > 0
       IN limparLoop(linhas, i + 1,
                     (IF flush THEN <<>> ELSE bufferSecao) \o <<linha>>,
                     IF flush THEN salvarSecaoSeValida(bufferSecao, resultado)
                     ELSE resultado)

limparSecoesVazias(inpText) ==
  Join(limparLoop(SplitLines(inpText), 1, <<>>, <<>>), "\n")

(***************************************************************************)
(* garantirSecoesObrigatorias: the stubs of the mandatory sections.        *)
(***************************************************************************)

secoesObrigatorias == <<"[OPTIONS]", "[REPORT]", "[TIMES]", "[ENERGY]">>

RECURSIVE CloseIndex(_, _)
\* the lazy '(.*?)\]': position of the first "]" at or after j that no line
\* terminator precedes, 0 when there is none
CloseIndex(s, j) ==
  IF j > Len(s) THEN 0
  ELSE IF Char(s, j) = "]" THEN j
  ELSE IF IsLineTerminator(Char(s, j)) THEN 0
  ELSE CloseIndex(s, j + 1)

RECURSIVE MatchBrackets(_, _)
\* inp.match(/\[(.*?)\]/g): the matches found scanning from position i
MatchBrackets(s, i) ==
  IF i > Len(s) THEN {}
  ELSE IF Char(s, i) = "["
  THEN LET j == CloseIndex(s, i + 1)
       IN IF j = 0 THEN MatchBrackets(s, i + 1)
          ELSE {SubSeq(s, i, j)} \cup MatchBrackets(s, j + 1)
  ELSE MatchBrackets(s, i + 1)

\* new Set(inp.match(...)?.map(s => s.toUpperCase()) || [])
jaIncluidas(inp) == {ToUpperCase(m) : m \in MatchBrackets(inp, 1)}

RECURSIVE IndexOfEnd(_, _)
\* the first match of /\[END\]/i at or after position i, 0 when there is none
IndexOfEnd(s, i) ==
  IF i + 4 > Len(s) THEN 0
  ELSE IF Char(s, i) = "[" /\ ToUpperCase(SubSeq(s, i, i + 4)) = "[END]" THEN i
  ELSE IndexOfEnd(s, i + 1)

\* the template literal put in the place of the match
stubAntesDoEnd(secao) == secao \o "\n; (auto)\n\n[END]"

\* textoFinal.replace(/\[END\]/i, ...): the first match only
substituirEnd(textoFinal, secao) ==
  LET k == IndexOfEnd(textoFinal, 1)
  IN IF k = 0 THEN textoFinal
     ELSE SubSeq(textoFinal, 1, k - 1) \o stubAntesDoEnd(secao)
            \o SubSeq(textoFinal, k + 5, Len(textoFinal))

RECURSIVE garantirLoop(_, _, _)
\* the for loop over secoesObrigatorias from entry i on
garantirLoop(textoFinal, incluidas, i) ==
  IF i > Len(secoesObrigatorias) THEN textoFinal
  ELSE garantirLoop(IF secoesObrigatorias[i] \notin incluidas
                    THEN substituirEnd(textoFinal, secoesObrigatorias[i])
                    ELSE textoFinal,
                    incluidas, i + 1)

garantirSecoesObrigatorias(inp) == garantirLoop(inp, jaIncluidas(inp), 1)

\* normalizarINP as one function (the actions below take it step by step)
normalizarINP(texto) ==
  garantirSecoesObrigatorias(
    limparSecoesVazias(corrigirRugosidadeINP(texto, ValorPadraoDefault)))

(***************************************************************************)
(* The input documents: at most MaxLines lines, each one of Linhas, with a  *)
(* "\n" between two lines; the line "[J]\r" gives a "\r\n" line ending,    *)
(* and the 9-token record has a space and a vertical tab between b and c.  *)
(***************************************************************************)

MaxLines == 3

Linhas ==
  {"", ";[end]", "; [Options]",
   "[Pipes] ", "[END]", "[OPTIONS]", "[J]\r", "[T",
   "P1", "P1 N1 N2 100", "a b c d e f g h i"}

Documentos ==
  {Join(ls, "\n") : ls \in UNION {[1..n -> Linhas] : n \in 0..MaxLines}}

(***************************************************************************)
(* The state machine: handleFile reads a text and normalizarINP takes it   *)
(* through the three stages; the result can be read in again.  A stage can *)
(* also be applied on its own to the text read.                            *)
(***************************************************************************)

Init ==
  /\ pc = "inicio"
  /\ passo = 1
  /\ original \in Documentos
  /\ comRugosidade = ""
  /\ limpo = ""
  /\ completo = ""

\* const comRugosidade = corrigirRugosidadeINP(original)
Corrigir ==
  /\ pc = "inicio"
  /\ comRugosidade' = corrigirRugosidadeINP(original, ValorPadraoDefault)
  /\ pc' = "corrigido"
  /\ UNCHANGED <<passo, original, limpo, completo>>

\* const limpo = limparSecoesVazias(comRugosidade)
Limpar ==
  /\ pc = "corrigido"
  /\ limpo' = limparSecoesVazias(comRugosidade)
  /\ pc' = "limpo"
  /\ UNCHANGED <<passo, original, comRugosidade, completo>>

\* const completo = garantirSecoesObrigatorias(limpo); return completo
Garantir ==
  /\ pc = "limpo"
  /\ completo' = garantirSecoesObrigatorias(limpo)
  /\ pc' = "completo"
  /\ UNCHANGED <<passo, original, comRugosidade, limpo>>

\* the normalised text is given to normalizarINP once more
Renormalizar ==
  /\ pc = "completo"
  /\ passo = 1
  /\ original' = completo
  /\ passo' = 2
  /\ pc' = "inicio"
  /\ comRugosidade' = ""
  /\ limpo' = ""
  /\ completo' = ""

\* limparSecoesVazias applied to the text read
LimparSozinho ==
  /\ pc = "inicio"
  /\ passo = 1
  /\ limpo' = limparSecoesVazias(original)
  /\ pc' = "limpoSozinho"
  /\ UNCHANGED <<passo, original, comRugosidade, completo>>

\* garantirSecoesObrigatorias applied to the text read
GarantirSozinho ==
  /\ pc = "inicio"
  /\ passo = 1
  /\ completo' = garantirSecoesObrigatorias(original)
  /\ pc' = "completoSozinho"
  /\ UNCHANGED <<passo, original, comRugosidade, limpo>>

Next ==
  \/ Corrigir
  \/ Limpar
  \/ Garantir
  \/ Renormalizar
  \/ LimparSozinho
  \/ GarantirSozinho

Spec == Init /\ [][Next]_vars

(***************************************************************************)
(* The vocabulary of the specification (spec.md, section 3), used to state *)
(* the properties below.                                                   *)
(***************************************************************************)

\* SectionHeader: the trimmed line starts with "[" and ends with "]"
EhSectionHeader(l) == StartsWith(Trim(l), "[") /\ EndsWith(Trim(l), "]")

\* DataLine: a non-blank line that is not a comment
EhDataLine(l) == Trim(l) # "" /\ ~StartsWith(Trim(l), ";")

\* the header line l carries the name nome, compared case-insensitively
TemNome(l, nome) == EhSectionHeader(l) /\ ToUpperCase(Trim(l)) = nome

\* the positions of the header lines named nome
Cabecalhos(lines, nome) == {i \in 1..Len(lines) : TemNome(lines[i], nome)}

\* the position of the first header line at or after i, 0 when there is none
PrimeiroCabecalho(lines, i) ==
  LET hs == {j \in i..Len(lines) : EhSectionHeader(lines[j])}
  IN IF hs = {} THEN 0 ELSE CHOOSE j \in hs : \A k \in hs : j <= k

\* the lines before the first header line
Preambulo(lines) ==
  LET h == PrimeiroCabecalho(lines, 1)
  IN IF h = 0 THEN lines ELSE SubSeq(lines, 1, h - 1)

\* line i lies in the PIPES section: after a [PIPES] header, with no line
\* starting with "[" since
NaSecaoPipes(lines, i) ==
  \E h \in 1..(i - 1) :
    /\ TemNome(lines[h], "[PIPES]")
    /\ \A j \in (h + 1)..i : ~StartsWith(Trim(lines[j]), "[")

\* the number of DataLines of the body of the section whose header is line h
DadosNoCorpo(lines, h) ==
  LET nxt == PrimeiroCabecalho(lines, h + 1)
      fim == IF nxt = 0 THEN Len(lines) ELSE nxt - 1
  IN Cardinality({j \in (h + 1)..fim : EhDataLine(lines[j])})

RECURSIVE SecoesCom(_, _, _)
\* the sections from header line h on whose body has at least minimo
\* DataLines, header and body, in order
SecoesCom(lines, h, minimo) ==
  IF h = 0 THEN <<>>
  ELSE LET nxt == PrimeiroCabecalho(lines, h + 1)
           fim == IF nxt = 0 THEN Len(lines) ELSE nxt - 1
       IN (IF DadosNoCorpo(lines, h) >= minimo
           THEN SubSeq(lines, h, fim) ELSE <<>>)
            \o SecoesCom(lines, nxt, minimo)

RECURSIVE Subsequencia(_, _)
\* the lines of a occur in b as whole lines, in the same order
Subsequencia(a, b) ==
  IF Len(a) = 0 THEN TRUE
  ELSE IF Len(b) = 0 THEN FALSE
  ELSE IF a[1] = b[1] THEN Subsequencia(Tail(a), Tail(b))
  ELSE Subsequencia(a, Tail(b))

\* the three lines of the stub of a mandatory section
Stub(nome) == <<nome, "; (auto)", "">>

\* the text a stage taken alone or within normalizarINP was given
EntradaLimpar == IF pc = "limpo" THEN comRugosidade ELSE original
EntradaGarantir == IF pc = "completo" THEN limpo ELSE original

\* MandatorySectionSet, as header texts in the order the stubs are written
MandatorySections == <<"[OPTIONS]", "[REPORT]", "[TIMES]", "[ENERGY]">>

\* the number of places where the three stub lines of nome stand in lines
NumStubs(lines, nome) ==
  Cardinality({i \in 1..(Len(lines) - 2) : SubSeq(lines, i, i + 2) = Stub(nome)})

RECURSIVE StubsEmFalta(_, _)
\* the stubs of the mandatory names from entry k on that have no header line
StubsEmFalta(lines, k) ==
  IF k > Len(MandatorySections) THEN <<>>
  ELSE (IF Cabecalhos(lines, MandatorySections[k]) = {}
        THEN Stub(MandatorySections[k]) ELSE <<>>)
         \o StubsEmFalta(lines, k + 1)

\* line i belongs to a block (the preamble or a section) that pruning drops:
\* the block, its header counted, has at most one line that is neither blank
\* nor a comment
EmBlocoRemovido(lines, i) ==
  LET hs == {j \in 1..i : EhSectionHeader(lines[j])}
      ini == IF hs = {} THEN 1 ELSE CHOOSE j \in hs : \A k \in hs : k <= j
      nxt == PrimeiroCabecalho(lines, i + 1)
      fim == IF nxt = 0 THEN Len(lines) ELSE nxt - 1
  IN Cardinality({j \in ini..fim : EhDataLine(lines[j])}) <= 1

RECURSIVE LinhasProtegidas(_, _)
\* the lines from i on that are outside the PIPES section (its header
\* included) and in no block that pruning drops
LinhasProtegidas(lines, i) ==
  IF i > Len(lines) THEN <<>>
  ELSE (IF \/ NaSecaoPipes(lines, i)
           \/ TemNome(lines[i], "[PIPES]")
           \/ EmBlocoRemovido(lines, i)
        THEN <<>> ELSE <<lines[i]>>)
         \o LinhasProtegidas(lines, i + 1)

(***************************************************************************)
(* The properties.                                                         *)
(***************************************************************************)

\* C1 (as claimed): normalizarINP is idempotent: given its own result, it
\* returns that result unchanged.
C1_Idempotence ==
  (pc = "completo" /\ passo = 2) => completo = original

\* C2 (as claimed): every DataLine in the PIPES section of the result of
\* normalizarINP splits on white space into exactly 8 tokens.
C2_EightColumns ==
  pc = "completo" =>
    LET out == SplitLines(completo)
    IN \A i \in 1..Len(out) :
         (NaSecaoPipes(out, i) /\ EhDataLine(out[i]))
           => Len(SplitSpaces(Trim(out[i]))) = 8

\* C3 (as claimed): when the input has an [END] header line, the result of
\* normalizarINP has exactly one header line for each of OPTIONS, REPORT,
\* TIMES and ENERGY.
C3_MandatoryComplete ==
  (pc = "completo" /\ Cabecalhos(SplitLines(original), "[END]") # {}) =>
    \A k \in 1..Len(MandatorySections) :
      Cardinality(Cabecalhos(SplitLines(completo), MandatorySections[k])) = 1

\* C4 (as claimed): when the input has exactly one [END] header line, so has
\* the result of normalizarINP, and every stub stands before it.
C4_EndSurvives ==
  (pc = "completo" /\ Cardinality(Cabecalhos(SplitLines(original), "[END]")) = 1) =>
    LET out == SplitLines(completo)
        ends == Cabecalhos(out, "[END]")
    IN /\ Cardinality(ends) = 1
       /\ \A e \in ends : \A i \in 1..(Len(out) - 2) : \A k \in 1..Len(MandatorySections) :
            SubSeq(out, i, i + 2) = Stub(MandatorySections[k]) => i < e

\* the section whose header is line h is a stub: the three stub lines of a
\* mandatory name
EhStub(lines, h) ==
  \E k \in 1..Len(MandatorySections) :
    h + 2 <= Len(lines) /\ SubSeq(lines, h, h + 2) = Stub(MandatorySections[k])

\* every section of lines that is not a stub has at least minimo DataLines in
\* its body, the header not counted
SecoesNaoDegeneradas(lines, minimo) ==
  \A h \in 1..Len(lines) :
    (EhSectionHeader(lines[h]) /\ ~EhStub(lines, h))
      => DadosNoCorpo(lines, h) >= minimo

\* the result of limparSecoesVazias is the sections of its input whose body
\* has at least minimo DataLines, header and body unchanged and in order,
\* after the preamble or without it, and nothing else
SoSecoesCom(minimo) ==
  LET in == SplitLines(EntradaLimpar)
      mantidas == SecoesCom(in, PrimeiroCabecalho(in, 1), minimo)
  IN limpo \in {Join(mantidas, "\n"), Join(Preambulo(in) \o mantidas, "\n")}

\* C5 (as claimed): every section left by limparSecoesVazias has at least two
\* DataLines in its body, the header not counted, every section whose body
\* has at most one DataLine being removed, header and body; and hence every
\* section of the result of normalizarINP that is not a stub has at least two
\* DataLines in its body.
C5_NonDegenerate ==
  /\ pc \in {"limpo", "limpoSozinho"} =>
       (SecoesNaoDegeneradas(SplitLines(limpo), 2) /\ SoSecoesCom(2))
  /\ pc = "completo" => SecoesNaoDegeneradas(SplitLines(completo), 2)

\* C5, the rule limparSecoesVazias implements (its count of valid lines takes
\* the header in): the sections it leaves are the sections of its input with
\* at least one DataLine in the body.
C5_PruningOneDataLine ==
  pc \in {"limpo", "limpoSozinho"} =>
    (SecoesNaoDegeneradas(SplitLines(limpo), 1) /\ SoSecoesCom(1))

\* C5, the same rule for the result of normalizarINP: every section that is
\* not a stub has at least one DataLine in its body.
C5_PipelineOneDataLine ==
  pc = "completo" => SecoesNaoDegeneradas(SplitLines(completo), 1)

\* C6 (as claimed): the lines of the input that are outside the PIPES section
\* and in no block removed by pruning occur in the result of normalizarINP as
\* whole lines with the same text and in the same order.
C6_Preservation ==
  (pc = "completo" /\ passo = 1) =>
    Subsequencia(LinhasProtegidas(SplitLines(original), 1), SplitLines(completo))

\* the default vector of the specification, defaultRoughness being 100
C7_Defaults == <<"", "", "", "0", "100", "100", "0.0", "Open">>

\* the record the specification gives for a DataLine of the PIPES section
C7_Record(l) ==
  LET t == SplitSpaces(Trim(l))
  IN Join([i \in 1..Len(C7_Defaults) |->
             IF i <= Len(t) THEN t[i] ELSE C7_Defaults[i]], " ")

\* C7: corrigirRugosidadeINP rewrites every DataLine of the PIPES section to
\* its first 8 tokens, a missing token i replaced by entry i of the default
\* vector, joined by single spaces, and leaves every other line as it is; the
\* section starts after a header equal to [PIPES] case-insensitively and
\* ends at the next line whose trimmed form starts with "[".
C7_PositionalDefaults ==
  pc = "corrigido" =>
    LET in == SplitLines(original)
    IN comRugosidade =
         Join([i \in 1..Len(in) |->
                 IF NaSecaoPipes(in, i) /\ EhDataLine(in[i])
                 THEN C7_Record(in[i]) ELSE in[i]], "\n")

\* C7 witness: the 4-token record of the specification's example is filled
\* to 8 fields, and the line "[T" that ends the section is left alone.
C7_Witness ==
  /\ pc = "corrigido"
  /\ original = "[Pipes] \nP1 N1 N2 100\n[T"
  /\ comRugosidade = "[Pipes] \nP1 N1 N2 100 100 100 0.0 Open\n[T"

\* C8 (as claimed): the lines before the first header line are the first
\* lines of the result of limparSecoesVazias.
C8_PreambleKept ==
  pc \in {"limpo", "limpoSozinho"} =>
    LET pre == Preambulo(SplitLines(EntradaLimpar))
        out == SplitLines(limpo)
    IN Len(out) >= Len(pre) /\ SubSeq(out, 1, Len(pre)) = pre

\* C9 (as claimed): garantirSecoesObrigatorias puts the stub lines of every
\* mandatory name without a header line right before the first [END] header
\* line, every line of the input staying as it is; without an [END] header
\* line the result is the input.
C9_StubPlacement ==
  pc \in {"completo", "completoSozinho"} =>
    LET in == SplitLines(EntradaGarantir)
        ends == Cabecalhos(in, "[END]")
        e == CHOOSE j \in ends : \A k \in ends : j <= k
    IN IF ends = {} THEN completo = EntradaGarantir
       ELSE SplitLines(completo) =
              SubSeq(in, 1, e - 1) \o StubsEmFalta(in, 1) \o SubSeq(in, e, Len(in))

\* C10 (as claimed): given a text with an [END] header line,
\* garantirSecoesObrigatorias adds the stub of a mandatory name if and only
\* if the text has no header line with that name.
C10_PresenceByHeader ==
  (pc \in {"completo", "completoSozinho"}
     /\ Cabecalhos(SplitLines(EntradaGarantir), "[END]") # {}) =>
    LET in == SplitLines(EntradaGarantir)
        out == SplitLines(completo)
    IN \A k \in 1..Len(MandatorySections) :
         (NumStubs(out, MandatorySections[k]) > NumStubs(in, MandatorySections[k]))
           <=> (Cabecalhos(in, MandatorySections[k]) = {})

====
